---- MODULE Spec2Model ----
(***************************************************************************)
(* Subscription bot: the entitlement store (users, channels,              *)
(* user_channels), the access granter / revoker of SubscriptionService,   *)
(* the reconciliation sweep (process_daily_check) and the handlers that   *)
(* mutate entitlement state.                                               *)
(*                                                                         *)
(* Time is counted in ticks, TicksPerDay ticks to a day, so that the      *)
(* CAST(julianday('now') - julianday(join_date) AS INTEGER) of the SQL    *)
(* queries is a real truncation.  Every handler is a coroutine; a step of *)
(* the model is the code between two awaits that matter for the store.    *)
(***************************************************************************)
EXTENDS Integers, Sequences, FiniteSets, TLC

(***************************************************************************)
(* Bounds of the model                                                     *)
(***************************************************************************)
TicksPerDay == 2
MaxDay == 64
MaxBonus == 10
MaxInvites == 2
MaxMsgId == 1

Users == {1, 2}
SweepIds == {"daily_check_job", "run_check_now"}
Instants == {0, 32 * TicksPerDay - 1, 32 * TicksPerDay, MaxDay * TicksPerDay}
BonusInputs == {-10}
MsgIds == 1..MaxMsgId

\* outcome of one platform call: success, TelegramBadRequest, any other exception
Outcome == {"ok", "bad", "err"}

(***************************************************************************)
(* Configuration (config.py)                                               *)
(***************************************************************************)
MAIN_CHANNEL_ID == 1
NoMessage == 0

\* CHANNEL_4_ID and CHANNEL_5_ID are left unset in the environment (id 0)
CHANNELS_CONFIG ==
    << [id |-> 2, days_required |-> 32],
       [id |-> 3, days_required |-> 64],
       [id |-> 0, days_required |-> 96],
       [id |-> 0, days_required |-> 124] >>

ConfigIdx == 1..Len(CHANNELS_CONFIG)
AuxChannels == {CHANNELS_CONFIG[i].id : i \in ConfigIdx} \ {0}
ChannelIds == AuxChannels \cup {MAIN_CHANNEL_ID}

VARIABLES
    now,            \* wall clock, in ticks
    users,          \* table users: user_id -> row
    member,         \* platform: members of the main channel
    channels,       \* table channels: channel_id -> row
    user_channels,  \* table user_channels: set of rows
    invites,        \* platform: invite links created per (user, channel) since
                    \* the pair's Grant row was last deleted
    effects,        \* platform calls and audit entries of the last step
    sweep,          \* the two callers of process_daily_check
    chan,           \* the /channels handler (show_channels)
    glog,           \* results of direct grant_channel_access calls
    fsm             \* FSMContext of the admin: dialog step and partial input

vars == << now, users, member, channels, user_channels, invites, effects,
           sweep, chan, glog, fsm >>

(***************************************************************************)
(* Helpers                                                                 *)
(***************************************************************************)
RECURSIVE SortedSeq(_)
SortedSeq(S) ==
    IF S = {} THEN << >>
    ELSE LET m == CHOOSE x \in S : \A y \in S : x <= y
         IN << m >> \o SortedSeq(S \ {m})

SeqToSet(s) == {s[i] : i \in 1..Len(s)}

Call(op, u, c) == [op |-> op, user |-> u, channel |-> c]
Log(kind, u) == [op |-> kind, user |-> u, channel |-> 0]

(***************************************************************************)
(* database/models.py                                                      *)
(***************************************************************************)
NoUser == [registered |-> FALSE, join_date |-> 0, is_active |-> FALSE,
           bonus_days |-> 0, is_banned |-> FALSE, notifications_enabled |-> TRUE]

\* UserModel.create: INSERT ... join_date = now, is_active = 1
UserModel_create(us, u, t) ==
    [us EXCEPT ![u] = [registered |-> TRUE, join_date |-> t, is_active |-> TRUE,
                       bonus_days |-> 0, is_banned |-> FALSE,
                       notifications_enabled |-> TRUE]]

\* UserModel.update_active: UPDATE users SET is_active = ? WHERE user_id = ?
update_active(us, u, b) ==
    IF us[u].registered THEN [us EXCEPT ![u].is_active = b] ELSE us

\* UserModelExtended.reactivate: join_date = now, is_active = 1, bonus_days = 0
reactivate(us, u, t) ==
    IF us[u].registered
    THEN [us EXCEPT ![u].join_date = t, ![u].is_active = TRUE, ![u].bonus_days = 0]
    ELSE us

\* variant of get_active_users that skips users with notifications off
get_active_users_notified(us) ==
    SortedSeq({u \in Users : us[u].registered /\ us[u].is_active
                                /\ us[u].notifications_enabled})

\* UserModel.get_active_users: SELECT * FROM users WHERE is_active = 1
get_active_users(us) ==
    SortedSeq({u \in Users : us[u].registered /\ us[u].is_active})

\* variant of days_subscribed that rounds to the nearest day
days_subscribed_rounded(us, u, t) ==
    (t - us[u].join_date + TicksPerDay \div 2) \div TicksPerDay

\* CAST((julianday('now') - julianday(join_date)) AS INTEGER)
days_subscribed(us, u, t) == (t - us[u].join_date) \div TicksPerDay

\* UserModelExtended.get_effective_days; 0 when the user has no row
get_effective_days(us, u, t) ==
    IF us[u].registered THEN days_subscribed(us, u, t) + us[u].bonus_days ELSE 0

\* UserChannelModel.has_access
has_access(uc, u, c) == \E r \in uc : r.user_id = u /\ r.channel_id = c

\* variant of grant_access whose statement is INSERT OR REPLACE
grant_access_replace(uc, u, c, t) ==
    {r \in uc : ~(r.user_id = u /\ r.channel_id = c)}
        \cup {[user_id |-> u, channel_id |-> c, granted_at |-> t,
                message_id |-> NoMessage]}

\* UserChannelModel.grant_access: INSERT OR IGNORE under UNIQUE(user_id, channel_id)
grant_access(uc, u, c, t) ==
    IF has_access(uc, u, c) THEN uc
    ELSE uc \cup {[user_id |-> u, channel_id |-> c, granted_at |-> t,
                   message_id |-> NoMessage]}

\* variant of update_message_id that stores nothing
update_message_id_dropped(uc, u, c, mid) == uc

\* UserChannelModel.update_message_id
update_message_id(uc, u, c, mid) ==
    {IF r.user_id = u /\ r.channel_id = c THEN [r EXCEPT !.message_id = mid] ELSE r
        : r \in uc}

\* variant of revoke_access whose DELETE has no channel_id condition
revoke_access_any_channel(uc, u, c) == {r \in uc : r.user_id # u}

\* UserChannelModel.revoke_access: DELETE ... WHERE user_id = ? AND channel_id = ?
revoke_access(uc, u, c) == {r \in uc : ~(r.user_id = u /\ r.channel_id = c)}

\* UserChannelModel.revoke_all: the rows deleted, and the table afterwards
revoke_all_info(uc, u) == {r \in uc : r.user_id = u}
revoke_all(uc, u) == {r \in uc : r.user_id # u}

\* UserChannelModel.get_users_with_channel_access: JOIN users u ON uc.user_id = u.user_id
get_users_with_channel_access(uc, us, c) ==
    SortedSeq({u \in Users : us[u].registered /\ has_access(uc, u, c)})

\* message_id of the row (u, c) as revoke_unqualified_channel_access reads it
message_id_of(uc, u, c) ==
    IF has_access(uc, u, c)
    THEN (CHOOSE r \in uc : r.user_id = u /\ r.channel_id = c).message_id
    ELSE NoMessage

\* the invite counter of a pair starts again when its row is deleted
forget(inv, uc, uc2) ==
    [u \in Users |-> [c \in ChannelIds |->
        IF has_access(uc, u, c) /\ ~has_access(uc2, u, c) THEN 0 ELSE inv[u][c]]]

(***************************************************************************)
(* services/subscription.py                                                *)
(***************************************************************************)
\* variant of AvailableFrom with the threshold compared strictly
RECURSIVE AvailableFrom_strict(_, _, _, _, _)
AvailableFrom_strict(i, us, uc, u, t) ==
    IF i > Len(CHANNELS_CONFIG) THEN << >>
    ELSE LET cfg == CHANNELS_CONFIG[i]
             rest == AvailableFrom_strict(i + 1, us, uc, u, t)
         IN IF /\ cfg.days_required < get_effective_days(us, u, t)
               /\ ~has_access(uc, u, cfg.id)
               /\ cfg.id # 0
            THEN << i >> \o rest
            ELSE rest

\* get_available_channels: indices of CHANNELS_CONFIG, in catalog order
RECURSIVE AvailableFrom(_, _, _, _, _)
AvailableFrom(i, us, uc, u, t) ==
    IF i > Len(CHANNELS_CONFIG) THEN << >>
    ELSE LET cfg == CHANNELS_CONFIG[i]
             rest == AvailableFrom(i + 1, us, uc, u, t)
         IN IF /\ cfg.days_required <= get_effective_days(us, u, t)
               /\ ~has_access(uc, u, cfg.id)
               /\ cfg.id # 0
            THEN << i >> \o rest
            ELSE rest

\* variant of get_available_channels that stops at the first channel found
get_available_channels_first(us, uc, u, t) ==
    IF ~us[u].registered \/ ~us[u].is_active THEN << >>
    ELSE LET av == AvailableFrom(1, us, uc, u, t)
         IN IF av = << >> THEN << >> ELSE << Head(av) >>

get_available_channels(us, uc, u, t) ==
    IF ~us[u].registered \/ ~us[u].is_active THEN << >>
    ELSE AvailableFrom(1, us, uc, u, t)

\* variant of Unqualified that also revokes at the threshold itself
Unqualified_inclusive(eff, req) == eff <= req

\* variant of Unqualified with the operands swapped
Unqualified_swapped(eff, req) == req < eff

\* line 176: if effective_days < days_required
Unqualified(eff, req) == eff < req

\* check_main_subscription: o is the outcome of get_chat_member.
\* TelegramBadRequest is answered with False; any other exception propagates.
check_main_subscription(u, o) ==
    IF o = "ok" THEN u \in member ELSE FALSE

(***************************************************************************)
(* Initial state: after on_startup, empty users table                      *)
(***************************************************************************)
IdleSweep ==
    [pc |-> "idle", ci |-> 0, holders |-> << >>, active_users |-> << >>,
     available |-> << >>,
     stats |-> [checked |-> 0, new_access_granted |-> 0, deactivated |-> 0,
                unqualified_revoked |-> 0, errors |-> 0],
     \* history of this run, read by the properties only
     was_active |-> {}, holders_seen |-> {}, holders_done |-> {}, revoked |-> {},
     snapshot |-> {}, visited |-> {}, raised |-> {}, query_failed |-> {},
     failed |-> {}, gone |-> {}]

\* no dialog in progress (state.clear()); cancelled is history, read by the
\* properties only: the Cancel button was pressed since the dialog started
NoDialog == [state |-> "none", channel |-> 0, user |-> 0, cancelled |-> FALSE]

IdleChan == [pc |-> "idle", user |-> 0, available |-> << >>]

Init ==
    /\ now = 0
    /\ users = [u \in Users |-> NoUser]
    /\ member = {}
    /\ channels = [c \in ChannelIds |->
                     IF c = MAIN_CHANNEL_ID
                     THEN [days_required |-> 0, is_main |-> TRUE]
                     ELSE [days_required |->
                             CHANNELS_CONFIG[CHOOSE i \in ConfigIdx :
                                               CHANNELS_CONFIG[i].id = c].days_required,
                           is_main |-> FALSE]]
    /\ user_channels = {}
    /\ invites = [u \in Users |-> [c \in ChannelIds |-> 0]]
    /\ effects = {}
    /\ sweep = [s \in SweepIds |-> IdleSweep]
    /\ chan = IdleChan
    /\ glog = << >>
    /\ fsm = NoDialog

\* both users did /start at instant 0 and are still subscribed at instant t
Subscribed(t) ==
    /\ now = t
    /\ users = [u \in Users |-> UserModel_create([v \in Users |-> NoUser], u, 0)[u]]
    /\ member = Users
    /\ channels = [c \in ChannelIds |->
                     IF c = MAIN_CHANNEL_ID
                     THEN [days_required |-> 0, is_main |-> TRUE]
                     ELSE [days_required |->
                             CHANNELS_CONFIG[CHOOSE i \in ConfigIdx :
                                               CHANNELS_CONFIG[i].id = c].days_required,
                           is_main |-> FALSE]]
    /\ user_channels = {}
    /\ invites = [u \in Users |-> [c \in ChannelIds |-> 0]]
    /\ effects = {}
    /\ sweep = [s \in SweepIds |-> IdleSweep]
    /\ chan = IdleChan
    /\ glog = << >>
    /\ fsm = NoDialog

\* the subscribed users at instant t, each holding the first channel of the
\* catalog with its invitation delivered
Holding(t) ==
    /\ now = t
    /\ users = [u \in Users |-> UserModel_create([v \in Users |-> NoUser], u, 0)[u]]
    /\ member = Users
    /\ channels = [c \in ChannelIds |->
                     IF c = MAIN_CHANNEL_ID
                     THEN [days_required |-> 0, is_main |-> TRUE]
                     ELSE [days_required |->
                             CHANNELS_CONFIG[CHOOSE i \in ConfigIdx :
                                               CHANNELS_CONFIG[i].id = c].days_required,
                           is_main |-> FALSE]]
    /\ user_channels = {[user_id |-> u, channel_id |-> CHANNELS_CONFIG[1].id,
                         granted_at |-> t, message_id |-> MaxMsgId] : u \in Users}
    /\ invites = [u \in Users |-> [c \in ChannelIds |->
                                      IF c = CHANNELS_CONFIG[1].id THEN 1 ELSE 0]]
    /\ effects = {}
    /\ sweep = [s \in SweepIds |-> IdleSweep]
    /\ chan = IdleChan
    /\ glog = << >>
    /\ fsm = NoDialog

Idle == (\A s \in SweepIds : sweep[s].pc = "idle") /\ chan.pc = "idle"

(***************************************************************************)
(* Environment: the clock and the main channel's membership                *)
(***************************************************************************)
Tick(excl) ==
    /\ excl => Idle
    /\ \E t \in Instants : t > now /\ now' = t
    /\ effects' = {}
    /\ UNCHANGED << users, member, channels, user_channels, invites, sweep, chan, glog, fsm >>

\* handlers/user.py on_user_joined: the user subscribes; the bot only greets
on_user_joined(u, excl) ==
    /\ excl => Idle
    /\ u \notin member
    /\ member' = member \cup {u}
    /\ effects' = {Call("send_message", u, 0)}
    /\ UNCHANGED << now, users, channels, user_channels, invites, sweep, chan, glog, fsm >>

(***************************************************************************)
(* revoke_user_access (lines 79-105).  The rows are deleted first, then    *)
(* the loop over them bans and unbans: TelegramBadRequest is caught per    *)
(* channel, any other exception leaves the loop and the function before    *)
(* update_active is reached.                                               *)
(***************************************************************************)
\* the channels of the rows revoke_all returns
HeldChannels(u) == {r.channel_id : r \in revoke_all_info(user_channels, u)}

\* the ways the loop can go: every call succeeds; ban_chat_member of channel
\* at raises TelegramBadRequest; it raises something else, after the
\* channels of tried (revoke_all's SELECT has no ORDER BY)
RevokeRuns(u) ==
    {[o |-> "ok", at |-> 0, tried |-> HeldChannels(u)]}
    \cup {[o |-> "bad", at |-> c, tried |-> HeldChannels(u)] : c \in HeldChannels(u)}
    \cup UNION {{[o |-> "err", at |-> c, tried |-> B \cup {c}] :
                    B \in SUBSET (HeldChannels(u) \ {c})} : c \in HeldChannels(u)}

RevokeCalls(u, run) ==
    {Call("ban_chat_member", u, c) : c \in run.tried}
    \cup {Call("unban_chat_member", u, c) : c \in run.tried \ {run.at}}

\* variant of Deactivated that never reaches line 103
Deactivated_skipped(us, u, run) == us

\* line 103, reached unless an exception left the loop
Deactivated(us, u, run) ==
    IF run.o = "err" THEN us ELSE update_active(us, u, FALSE)

revoke_user_access(u, run) ==
    /\ user_channels' = revoke_all(user_channels, u)
    /\ invites' = forget(invites, user_channels, revoke_all(user_channels, u))
    /\ users' = Deactivated(users, u, run)

\* variant of RevokedMessages without the "if message_id" filter
RevokedMessages_unfiltered(u) ==
    {r.message_id : r \in revoke_all_info(user_channels, u)}

\* ids of the delivered invitation messages returned by revoke_user_access
RevokedMessages(u) ==
    {r.message_id : r \in revoke_all_info(user_channels, u)} \ {NoMessage}

\* handlers/user.py on_user_left: a "left" update of chat for user u.  For
\* any chat but the main channel the handler returns at once (lines 280-281);
\* for the main channel the user leaves it and, when the update is delivered,
\* the handler revokes everything at once
on_user_left(chat, u, delivered, run, excl) ==
    /\ excl => Idle
    /\ IF chat # MAIN_CHANNEL_ID
       THEN /\ delivered
            /\ run.o = "ok"
            /\ effects' = {Call("chat_member_left", u, chat)}
            /\ UNCHANGED << users, member, user_channels, invites >>
       ELSE /\ u \in member
            /\ member' = member \ {u}
            /\ IF delivered
               THEN /\ revoke_user_access(u, run)
                    /\ effects' = {Call("chat_member_left", u, chat)} \cup
                         RevokeCalls(u, run) \cup
                         (IF run.o = "err" THEN {}
                          ELSE {Log("user_left", u), Call("send_message", u, 0)} \cup
                               {Call("delete_message", u, 0) : m \in RevokedMessages(u)})
               ELSE /\ run.o = "ok"
                    /\ effects' = {}
                    /\ UNCHANGED << users, user_channels, invites >>
    /\ UNCHANGED << now, channels, sweep, chan, glog, fsm >>

(***************************************************************************)
(* register_user (lines 27-49) and cmd_start                               *)
(***************************************************************************)
register_status(u) ==
    IF users[u].registered
    THEN (IF ~users[u].is_active THEN "reactivated" ELSE "existing")
    ELSE "new"

\* variant of Reactivation that writes nothing
Reactivation_none(us, u, t) == us

\* the store write of the reactivation branch (line 42)
Reactivation(us, u, t) == update_active(us, u, TRUE)

register_user(us, u, t) ==
    IF us[u].registered
    THEN (IF ~us[u].is_active THEN Reactivation(us, u, t) ELSE us)
    ELSE UserModel_create(us, u, t)

cmd_start(u, o, excl) ==
    /\ excl => Idle
    /\ IF users[u].registered /\ users[u].is_banned
       THEN /\ o = "ok"
            /\ effects' = {Call("send_message", u, 0)}
            /\ UNCHANGED users
       ELSE IF o = "err"
       THEN /\ effects' = {Call("get_chat_member", u, MAIN_CHANNEL_ID)}
            /\ UNCHANGED users
       ELSE IF ~check_main_subscription(u, o)
       THEN /\ effects' = {Call("get_chat_member", u, MAIN_CHANNEL_ID),
                           Call("send_message", u, 0)}
            /\ UNCHANGED users
       ELSE /\ users' = register_user(users, u, now)
            /\ effects' = {Call("get_chat_member", u, MAIN_CHANNEL_ID),
                           Call("send_message", u, 0)} \cup
                 (CASE register_status(u) = "new" -> {Log("user_registered", u)}
                    [] register_status(u) = "reactivated" -> {Log("user_reactivated", u)}
                    [] OTHER -> {})
    /\ UNCHANGED << now, member, channels, user_channels, invites, sweep, chan, glog, fsm >>

(***************************************************************************)
(* grant_channel_access (lines 51-77), in the two halves its awaits leave: *)
(* the has_access check, then create_chat_invite_link + grant_access.     *)
(* o is the outcome of create_chat_invite_link; both kinds of failure are *)
(* caught and answered with None.                                          *)
(***************************************************************************)
\* variant of GrantDeclined that skips the has_access check
GrantDeclined_never(uc, u, c) == FALSE

GrantDeclined(uc, u, c) == has_access(uc, u, c)

InviteCreated(o) == o = "ok"

\* variant of grant_rows that writes the row whatever create_chat_invite_link did
grant_rows_unconditional(uc, u, c, o, t) == grant_access(uc, u, c, t)

grant_rows(uc, u, c, o, t) ==
    IF InviteCreated(o) THEN grant_access(uc, u, c, t) ELSE uc

grant_invites(inv, u, c, o) ==
    IF InviteCreated(o) THEN [inv EXCEPT ![u][c] = @ + 1] ELSE inv

\* glog after a call: the calls made in succession with the same arguments
Successive(rec) ==
    IF glog # << >> /\ glog[Len(glog)].op = rec.op
                    /\ glog[Len(glog)].user = rec.user
                    /\ glog[Len(glog)].channel = rec.channel
    THEN << glog[Len(glog)], rec >>
    ELSE << rec >>

\* what one call of grant_channel_access returned and did
Returned(uc, u, c, o) ==
    [op |-> "grant_channel_access", user |-> u, channel |-> c,
     link |-> ~GrantDeclined(uc, u, c) /\ InviteCreated(o),
     asked |-> ~GrantDeclined(uc, u, c)]

\* grant_channel_access run from its first line to its return, no other
\* coroutine in between; glog keeps the calls made in succession on one pair
grant_channel_access(u, c, o) ==
    LET declined == GrantDeclined(user_channels, u, c)
        ret == Returned(user_channels, u, c, o)
    IN /\ Idle
       /\ declined => o = "ok"
       /\ ~declined => invites[u][c] < MaxInvites
       /\ user_channels' = IF declined THEN user_channels
                           ELSE grant_rows(user_channels, u, c, o, now)
       /\ invites' = IF declined THEN invites ELSE grant_invites(invites, u, c, o)
       /\ effects' = IF declined THEN {} ELSE {Call("create_chat_invite_link", u, c)}
       /\ glog' = Successive(ret)
       /\ UNCHANGED << now, users, member, channels, sweep, chan, fsm >>

\* UserChannelModel.revoke_access on its own: ends a run of successive calls
revoke_channel(u, c) ==
    /\ Idle
    /\ has_access(user_channels, u, c)
    /\ user_channels' = revoke_access(user_channels, u, c)
    /\ invites' = forget(invites, user_channels, revoke_access(user_channels, u, c))
    /\ effects' = {}
    /\ glog' = << >>
    /\ UNCHANGED << now, users, member, channels, sweep, chan, fsm >>

\* the caller of grant_channel_access stored the delivered message's id
invitation_delivered(u, c, mid) ==
    /\ Idle
    /\ has_access(user_channels, u, c)
    /\ message_id_of(user_channels, u, c) = NoMessage
    /\ user_channels' = update_message_id(user_channels, u, c, mid)
    /\ effects' = {Call("send_message", u, c)}
    /\ glog' = << >>
    /\ UNCHANGED << now, users, member, channels, invites, sweep, chan, fsm >>

\* revoke_user_access run from its first line to its return or its exception
call_revoke_user_access(u, run) ==
    /\ Idle
    /\ revoke_user_access(u, run)
    /\ effects' = RevokeCalls(u, run)
    /\ glog' = Successive(
           [op |-> "revoke_user_access", user |-> u, channel |-> 0,
            returned |-> run.o # "err",
            message_ids |-> IF run.o # "err" THEN RevokedMessages(u) ELSE {},
            tried |-> run.tried,
            held |-> revoke_all_info(user_channels, u),
            others |-> revoke_all(user_channels, u),
            after |-> [rows |-> revoke_all(user_channels, u),
                       users |-> Deactivated(users, u, run)]])
    /\ UNCHANGED << now, member, channels, sweep, chan, fsm >>

\* revoke_unqualified_channel_access (lines 107-143) run from its first line
\* to its return or its exception: the row is deleted, then ban and unban
\* (outcome ban_o), then the notification (outcome send_o); only
\* TelegramBadRequest is caught
revoke_unqualified_channel_access(u, c, ban_o, send_o) ==
    /\ Idle
    /\ ban_o = "err" => send_o = "ok"
    /\ user_channels' = revoke_access(user_channels, u, c)
    /\ invites' = forget(invites, user_channels, revoke_access(user_channels, u, c))
    /\ effects' = {Call("ban_chat_member", u, c)}
                     \cup (IF ban_o = "ok" THEN {Call("unban_chat_member", u, c)} ELSE {})
                     \cup (IF ban_o # "err" THEN {Call("send_message", u, 0)} ELSE {})
    /\ glog' = Successive(
           [op |-> "revoke_unqualified_channel_access", user |-> u, channel |-> c,
            returned |-> ban_o # "err" /\ send_o # "err",
            message_id |-> message_id_of(user_channels, u, c),
            had |-> has_access(user_channels, u, c),
            rows |-> user_channels,
            users |-> users])
    /\ UNCHANGED << now, users, member, channels, sweep, chan, fsm >>

(***************************************************************************)
(* The writes to user_channels with the outcome w of db.execute.  Both     *)
(* model methods catch the exception of a failed statement and return      *)
(* False (models.py lines 143-152 and 223-229).                            *)
(***************************************************************************)
grant_access_io(uc, u, c, t, w) == IF w THEN grant_access(uc, u, c, t) ELSE uc

revoke_access_io(uc, u, c, w) == IF w THEN revoke_access(uc, u, c) ELSE uc

\* UserChannelModel.grant_access called on its own, as the second of two
\* grants of one pair does once both are past the has_access check
call_grant_access(u, c, w) ==
    /\ Idle
    /\ user_channels' = grant_access_io(user_channels, u, c, now, w)
    /\ effects' = {}
    /\ glog' = << [op |-> "grant_access", user |-> u, channel |-> c,
                   returned |-> w] >>
    /\ UNCHANGED << now, users, member, channels, invites, sweep, chan, fsm >>

\* UserChannelModel.revoke_access called on its own
call_revoke_access(u, c, w) ==
    /\ Idle
    /\ has_access(user_channels, u, c)
    /\ user_channels' = revoke_access_io(user_channels, u, c, w)
    /\ invites' = forget(invites, user_channels, revoke_access_io(user_channels, u, c, w))
    /\ effects' = {}
    /\ glog' = << [op |-> "revoke_access", user |-> u, channel |-> c,
                   returned |-> w] >>
    /\ UNCHANGED << now, users, member, channels, sweep, chan, fsm >>

\* grant_channel_access run from its first line to its return: line 69 awaits
\* grant_access and drops what it returns, line 71 returns the link
grant_channel_access_io(u, c, o, w) ==
    LET declined == GrantDeclined(user_channels, u, c)
        created == ~declined /\ InviteCreated(o)
    IN /\ Idle
       /\ declined => o = "ok"
       /\ ~created => w
       /\ ~declined => invites[u][c] < MaxInvites
       /\ user_channels' = IF created
                           THEN grant_access_io(user_channels, u, c, now, w)
                           ELSE user_channels
       /\ invites' = IF declined THEN invites ELSE grant_invites(invites, u, c, o)
       /\ effects' = IF declined THEN {} ELSE {Call("create_chat_invite_link", u, c)}
       /\ glog' = << [op |-> "grant_channel_access", user |-> u, channel |-> c,
                      link |-> created, asked |-> ~declined, stored |-> w] >>
       /\ UNCHANGED << now, users, member, channels, sweep, chan, fsm >>

(***************************************************************************)
(* process_daily_check (lines 246-306) and                                 *)
(* check_and_revoke_unqualified_access (lines 145-202)                     *)
(***************************************************************************)
\* variant of OnUserError without the per-user try block: the sweep dies
OnUserError_propagates(sw) ==
    [sw EXCEPT !.pc = "aborted"]

\* an exception escaped the per-user try block: counted, the loop goes on
OnUserError(sw) ==
    [sw EXCEPT !.stats.errors = @ + 1]

\* history: an exception was raised while (u, c) was processed in that pass
Raised(sw, pass, u, c) ==
    [sw EXCEPT !.raised = @ \cup {<< pass, u, c >>}]

\* history: a platform call made for u in the liveness + grant pass failed
Failed(sw, u) == [sw EXCEPT !.failed = @ \cup {u}]

\* variant of AfterUser that hands over to the downgrade pass again
AfterUser_downgrade_again(sw) ==
    LET rest == Tail(sw.active_users)
    IN [sw EXCEPT !.active_users = rest,
                  !.available = << >>,
                  !.visited = @ \cup {Head(sw.active_users)},
                  !.ci = IF rest = << >> THEN 0 ELSE @,
                  !.pc = IF rest = << >> THEN "downgrade" ELSE "liveness"]

\* the user at the head of active_users is finished
AfterUser(sw) ==
    LET rest == Tail(sw.active_users)
    IN [sw EXCEPT !.active_users = rest,
                  !.available = << >>,
                  !.visited = @ \cup {Head(sw.active_users)},
                  !.pc = IF rest = << >> THEN "done" ELSE "liveness"]

\* the channel at the head of available is finished
AfterChannel(sw) ==
    IF Tail(sw.available) = << >> THEN AfterUser(sw)
    ELSE [sw EXCEPT !.available = Tail(@), !.pc = "grant"]

sweep_start(s, excl) ==
    /\ excl => Idle
    /\ sweep[s].pc = "idle"
    /\ sweep' = [sweep EXCEPT ![s] =
                   [IdleSweep EXCEPT !.pc = "downgrade",
                                     !.was_active = {u \in Users : users[u].is_active}]]
    /\ effects' = {}
    /\ UNCHANGED << now, users, member, channels, user_channels, invites, chan, glog, fsm >>

\* lines 156-167: next entry of CHANNELS_CONFIG; id 0 is skipped
downgrade_next_channel(s) ==
    LET sw == sweep[s]
    IN /\ sw.pc = "downgrade"
       /\ sw.holders = << >>
       /\ IF sw.ci < Len(CHANNELS_CONFIG)
          THEN LET c == CHANNELS_CONFIG[sw.ci + 1].id
                    hs == IF c = 0 THEN << >>
                          ELSE get_users_with_channel_access(user_channels, users, c)
               IN sweep' = [sweep EXCEPT ![s].ci = sw.ci + 1,
                                         ![s].holders = hs,
                                         ![s].holders_seen =
                                             @ \cup {<< u, c >> : u \in SeqToSet(hs)}]
          ELSE sweep' = [sweep EXCEPT ![s].pc = "downgraded"]
       /\ effects' = {}
       /\ UNCHANGED << now, users, member, channels, user_channels, invites, chan, glog, fsm >>

\* lines 169-202 with revoke_unqualified_channel_access (lines 107-143):
\* one holder of the current channel
downgrade_user(s) ==
    LET sw == sweep[s]
        u == Head(sw.holders)
        cfg == CHANNELS_CONFIG[sw.ci]
        c == cfg.id
        eff == get_effective_days(users, u, now)
        mid == message_id_of(user_channels, u, c)
        next == [sw EXCEPT !.holders = Tail(@),
                           !.holders_done = @ \cup {<< u, c >>}]
        gone == [next EXCEPT !.revoked = @ \cup {<< u, c >>}]
    IN /\ sw.pc = "downgrade"
       /\ sw.holders # << >>
       /\ IF Unqualified(eff, cfg.days_required)
          THEN \E ban_o \in Outcome, send_o \in Outcome :
                 /\ ban_o = "err" => send_o = "ok"
                 /\ user_channels' = revoke_access(user_channels, u, c)
                 /\ invites' = forget(invites, user_channels,
                                      revoke_access(user_channels, u, c))
                 /\ IF ban_o = "err" \/ send_o = "err"
                    THEN /\ sweep' = [sweep EXCEPT ![s] =
                                        OnUserError(Raised(gone, "downgrade", u, c))]
                         /\ effects' = {Call("ban_chat_member", u, c)} \cup
                              (IF ban_o = "err" THEN {}
                               ELSE {Call("send_message", u, 0)}) \cup
                              (IF ban_o = "ok" THEN {Call("unban_chat_member", u, c)}
                               ELSE {})
                    ELSE /\ sweep' = [sweep EXCEPT ![s] =
                                        [gone EXCEPT !.stats.unqualified_revoked = @ + 1]]
                         /\ effects' = {Call("ban_chat_member", u, c),
                                        Call("send_message", u, 0),
                                        Log("channel_access_revoked", u)} \cup
                              (IF ban_o = "ok" THEN {Call("unban_chat_member", u, c)}
                               ELSE {}) \cup
                              (IF mid # NoMessage THEN {Call("delete_message", u, 0)}
                               ELSE {})
          ELSE /\ sweep' = [sweep EXCEPT ![s] = next]
               /\ effects' = {}
               /\ UNCHANGED << user_channels, invites >>
       /\ UNCHANGED << now, users, member, channels, chan, glog, fsm >>

\* line 264: active_users = await UserModel.get_active_users()
liveness_start(s) ==
    LET sw == sweep[s]
        act == get_active_users(users)
    IN /\ sw.pc = "downgraded"
       /\ sweep' = [sweep EXCEPT ![s].active_users = act,
                                 ![s].snapshot = SeqToSet(act),
                                 ![s].pc = IF act = << >> THEN "done" ELSE "liveness"]
       /\ effects' = {}
       /\ UNCHANGED << now, users, member, channels, user_channels, invites, chan, glog, fsm >>

\* lines 266-281: membership query, then full revocation or the list of
\* channels to grant
liveness_user(s) ==
    LET sw == sweep[s]
        u == Head(sw.active_users)
        counted == [sw EXCEPT !.stats.checked = @ + 1]
        query == Call("get_chat_member", u, MAIN_CHANNEL_ID)
    IN /\ sw.pc = "liveness"
       /\ \E o \in Outcome :
            IF o = "err"
            THEN /\ sweep' = [sweep EXCEPT ![s] =
                        OnUserError(AfterUser(Raised(Failed(
                            [counted EXCEPT !.query_failed = @ \cup {u}], u),
                            "liveness", u, 0)))]
                 /\ effects' = {query}
                 /\ UNCHANGED << users, user_channels, invites >>
            ELSE IF ~check_main_subscription(u, o)
            THEN \E run \in RevokeRuns(u) :
                   /\ revoke_user_access(u, run)
                   /\ effects' = {query} \cup RevokeCalls(u, run)
                   /\ sweep' = [sweep EXCEPT ![s] =
                        LET found == [counted EXCEPT !.gone = @ \cup {u}]
                            asked == IF o = "bad"
                                     THEN Failed([found EXCEPT !.query_failed = @ \cup {u}], u)
                                     ELSE found
                        IN IF run.o = "err"
                           THEN OnUserError(AfterUser(Raised(Failed(asked, u), "liveness", u, 0)))
                           ELSE AfterUser([(IF run.o = "bad" THEN Failed(asked, u) ELSE asked)
                                             EXCEPT !.stats.deactivated = @ + 1])]
            ELSE LET av == get_available_channels(users, user_channels, u, now)
                 IN /\ sweep' = [sweep EXCEPT ![s] =
                          IF av = << >> THEN AfterUser(counted)
                          ELSE [counted EXCEPT !.available = av, !.pc = "grant"]]
                    /\ effects' = {query}
                    /\ UNCHANGED << users, user_channels, invites >>
       /\ UNCHANGED << now, member, channels, chan, glog, fsm >>

\* line 283 into grant_channel_access, up to the has_access check (line 58)
sweep_grant_check(s) ==
    LET sw == sweep[s]
        u == Head(sw.active_users)
        c == CHANNELS_CONFIG[Head(sw.available)].id
    IN /\ sw.pc = "grant"
       /\ sweep' = [sweep EXCEPT ![s] =
                      IF GrantDeclined(user_channels, u, c) THEN AfterChannel(sw)
                      ELSE [sw EXCEPT !.pc = "invite"]]
       /\ effects' = {}
       /\ UNCHANGED << now, users, member, channels, user_channels, invites, chan, glog, fsm >>

\* lines 62-71 and 284-300: the invite link, the Grant row, the delivery
sweep_grant_commit(s) ==
    LET sw == sweep[s]
        u == Head(sw.active_users)
        c == CHANNELS_CONFIG[Head(sw.available)].id
        invite == Call("create_chat_invite_link", u, c)
        failing == Failed(sw, u)
    IN /\ sw.pc = "invite"
       /\ invites[u][c] < MaxInvites
       /\ \E o \in Outcome, send_o \in Outcome, mid \in MsgIds :
            /\ invites' = grant_invites(invites, u, c, o)
            /\ IF ~InviteCreated(o)
               THEN /\ send_o = "ok"
                    /\ user_channels' = grant_rows(user_channels, u, c, o, now)
                    /\ sweep' = [sweep EXCEPT ![s] = AfterChannel(failing)]
                    /\ effects' = {invite}
               ELSE /\ effects' = {invite, Call("send_message", u, c)}
                    /\ CASE send_o = "ok" ->
                              /\ user_channels' = update_message_id(
                                     grant_rows(user_channels, u, c, o, now), u, c, mid)
                              /\ sweep' = [sweep EXCEPT ![s] =
                                   AfterChannel([sw EXCEPT !.stats.new_access_granted = @ + 1])]
                         [] send_o = "bad" ->
                              /\ user_channels' = grant_rows(user_channels, u, c, o, now)
                              /\ sweep' = [sweep EXCEPT ![s] = AfterChannel(failing)]
                         [] send_o = "err" ->
                              /\ user_channels' = grant_rows(user_channels, u, c, o, now)
                              /\ sweep' = [sweep EXCEPT ![s] =
                                   OnUserError(AfterUser(Raised(failing, "liveness", u, 0)))]
       /\ UNCHANGED << now, users, member, channels, chan, glog, fsm >>

\* process_daily_check returns its stats
sweep_finish(s) ==
    /\ sweep[s].pc \in {"done", "aborted"}
    /\ sweep' = [sweep EXCEPT ![s] = IdleSweep]
    /\ effects' = {}
    /\ UNCHANGED << now, users, member, channels, user_channels, invites, chan, glog, fsm >>

(***************************************************************************)
(* handlers/user.py show_channels (/channels, lines 167-205)               *)
(***************************************************************************)
ChanAfterChannel(ch) ==
    IF Tail(ch.available) = << >> THEN IdleChan
    ELSE [ch EXCEPT !.available = Tail(@), !.pc = "grant"]

chan_start(u, excl) ==
    LET av == get_available_channels(users, user_channels, u, now)
    IN /\ excl => Idle
       /\ chan.pc = "idle"
       /\ IF av = << >>
          THEN /\ effects' = {Call("send_message", u, 0)}
               /\ UNCHANGED chan
          ELSE /\ effects' = {}
               /\ chan' = [pc |-> "grant", user |-> u, available |-> av]
       /\ UNCHANGED << now, users, member, channels, user_channels, invites, sweep, glog, fsm >>

chan_grant_check ==
    LET u == chan.user
        c == CHANNELS_CONFIG[Head(chan.available)].id
    IN /\ chan.pc = "grant"
       /\ chan' = IF GrantDeclined(user_channels, u, c) THEN ChanAfterChannel(chan)
                  ELSE [chan EXCEPT !.pc = "invite"]
       /\ effects' = {}
       /\ UNCHANGED << now, users, member, channels, user_channels, invites, sweep, glog, fsm >>

\* message.answer is not guarded: a failed delivery ends the handler
chan_grant_commit ==
    LET u == chan.user
        c == CHANNELS_CONFIG[Head(chan.available)].id
        invite == Call("create_chat_invite_link", u, c)
    IN /\ chan.pc = "invite"
       /\ invites[u][c] < MaxInvites
       /\ \E o \in Outcome, send_o \in Outcome, mid \in MsgIds :
            /\ invites' = grant_invites(invites, u, c, o)
            /\ IF ~InviteCreated(o)
               THEN /\ send_o = "ok"
                    /\ user_channels' = grant_rows(user_channels, u, c, o, now)
                    /\ chan' = ChanAfterChannel(chan)
                    /\ effects' = {invite}
               ELSE IF send_o = "ok"
               THEN /\ user_channels' = update_message_id(
                          grant_rows(user_channels, u, c, o, now), u, c, mid)
                    /\ chan' = ChanAfterChannel(chan)
                    /\ effects' = {invite, Call("send_message", u, c),
                                   Log("channel_access_granted", u)}
               ELSE /\ user_channels' = grant_rows(user_channels, u, c, o, now)
                    /\ chan' = IdleChan
                    /\ effects' = {invite, Call("send_message", u, c)}
       /\ UNCHANGED << now, users, member, channels, sweep, glog, fsm >>

(***************************************************************************)
(* handlers/admin.py                                                       *)
(***************************************************************************)
DaysInputs == {10, 100}

\* process_channel_days (lines 329-360): UPDATE channels SET days_required
process_channel_days(c, d, excl) ==
    /\ excl => Idle
    /\ channels[c].days_required # d
    /\ channels' = [channels EXCEPT ![c].days_required = d]
    /\ effects' = {Log("channel_settings_changed", 0)}
    /\ UNCHANGED << now, users, member, user_channels, invites, sweep, chan, glog, fsm >>

\* UserModelExtended.add_bonus_days
add_bonus_days(us, u, d) == [us EXCEPT ![u].bonus_days = @ + d]

\* process_bonus_days (lines 979-1010); the user was looked up by
\* process_user_for_bonus, so the row exists
process_bonus_days(u, d, excl) ==
    /\ excl => Idle
    /\ users[u].registered
    /\ users[u].bonus_days + d \in -MaxBonus..MaxBonus
    /\ users' = add_bonus_days(users, u, d)
    /\ effects' = {Log(IF d > 0 THEN "bonus_days_added" ELSE "bonus_days_removed", u)}
    /\ UNCHANGED << now, member, channels, user_channels, invites, sweep, chan, glog, fsm >>

\* variant of ban_user that also clears is_active
ban_user_deactivating(us, u) ==
    [us EXCEPT ![u].is_banned = TRUE, ![u].is_active = FALSE]

\* UserModelExtended.ban_user: UPDATE users SET is_banned = 1
ban_user(us, u) == [us EXCEPT ![u].is_banned = TRUE]

\* do_ban_user (lines 1125-1140), reached from process_ban_reason and
\* ban_without_reason for a user process_user_for_ban found not banned
do_ban_user(u, excl) ==
    /\ excl => Idle
    /\ users[u].registered
    /\ ~users[u].is_banned
    /\ users' = ban_user(users, u)
    /\ effects' = {Log("user_banned", u)}
    /\ UNCHANGED << now, member, channels, user_channels, invites, sweep, chan, glog, fsm >>

\* unban_user (lines 1143-1164)
unban_user(u, excl) ==
    /\ excl => Idle
    /\ users[u].registered
    /\ users[u].is_banned
    /\ users' = [users EXCEPT ![u].is_banned = FALSE]
    /\ effects' = {Log("user_unbanned", u)}
    /\ UNCHANGED << now, member, channels, user_channels, invites, sweep, chan, glog, fsm >>

\* variant of ManualGrantRefused that also refuses a user short of days
ManualGrantRefused_unqualified(u, c) ==
    \/ has_access(user_channels, u, c)
    \/ get_effective_days(users, u, now) < channels[c].days_required

\* lines 731-733: the only test between the lookups and the grant
ManualGrantRefused(u, c) == has_access(user_channels, u, c)

\* process_manual_grant (lines 712-782): the admin picked channel c for user u
process_manual_grant(u, c, excl) ==
    /\ excl => Idle
    /\ users[u].registered
    /\ IF ManualGrantRefused(u, c)
       THEN /\ effects' = {}
            /\ UNCHANGED << user_channels, invites >>
       ELSE /\ invites[u][c] < MaxInvites
            /\ \E o \in Outcome, send_o \in Outcome, mid \in MsgIds :
                 /\ invites' = grant_invites(invites, u, c, o)
                 /\ IF ~InviteCreated(o)
                    THEN /\ send_o = "ok"
                         /\ user_channels' = grant_rows(user_channels, u, c, o, now)
                         /\ effects' = {Call("create_chat_invite_link", u, c)}
                    ELSE /\ send_o # "bad"
                         /\ user_channels' =
                               IF send_o = "ok"
                               THEN update_message_id(
                                        grant_rows(user_channels, u, c, o, now), u, c, mid)
                               ELSE grant_rows(user_channels, u, c, o, now)
                         /\ effects' = {Call("create_chat_invite_link", u, c),
                                        Call("send_message", u, c),
                                        Log("admin_manual_grant", u)}
    /\ UNCHANGED << now, users, member, channels, sweep, chan, glog, fsm >>

\* variant of get_additional without the is_main condition (get_all)
get_additional_all(ch) == DOMAIN ch

\* ChannelModel.get_additional: SELECT * FROM channels WHERE is_main = 0; the
\* buttons process_user_for_grant offers carry these channel ids
get_additional(ch) == {c \in DOMAIN ch : ~ch[c].is_main}

\* UserModelExtended.get_users_by_days_range: active users by real days
get_users_by_days_range(us, lo, hi, t) ==
    SortedSeq({u \in Users : /\ us[u].registered
                             /\ us[u].is_active
                             /\ days_subscribed(us, u, t) \in lo..hi})

\* the first channel get_available_channels lists for u, 0 when it lists none
FirstAvailable(u) ==
    LET av == get_available_channels(users, user_channels, u, now)
    IN IF av = << >> THEN 0 ELSE CHANNELS_CONFIG[Head(av)].id

\* the rows after the loop of process_mass_grant over seq (lines 482-498):
\* o[u] is the outcome of create_chat_invite_link, sent[u] of send_message
RECURSIVE MassGrantRows(_, _, _, _, _)
MassGrantRows(seq, uc, o, sent, mid) ==
    IF seq = << >> THEN uc
    ELSE LET u == Head(seq)
             c == FirstAvailable(u)
             granted == grant_rows(uc, u, c, o[u], now)
         IN MassGrantRows(Tail(seq),
                IF c = 0 THEN uc
                ELSE IF InviteCreated(o[u]) /\ sent[u]
                THEN update_message_id(granted, u, c, mid)
                ELSE granted,
                o, sent, mid)

MassRanges == {<< 0, 31 >>, << 32, 64 >>}

\* process_mass_grant (lines 457-511): every user of the range is given the
\* first channel available to them; a failed delivery is passed over
process_mass_grant(range, excl) ==
    LET sel == get_users_by_days_range(users, range[1], range[2], now)
        targets == {u \in SeqToSet(sel) : FirstAvailable(u) # 0}
    IN /\ excl => Idle
       /\ \A u \in targets : invites[u][FirstAvailable(u)] < MaxInvites
       /\ \E o \in [Users -> Outcome], sent \in [Users -> BOOLEAN], mid \in MsgIds :
            /\ \A u \in Users \ targets : o[u] = "ok" /\ sent[u]
            /\ \A u \in targets : ~InviteCreated(o[u]) => sent[u]
            /\ user_channels' = MassGrantRows(sel, user_channels, o, sent, mid)
            /\ invites' = [u \in Users |-> [c \in ChannelIds |->
                              IF u \in targets /\ c = FirstAvailable(u)
                              THEN grant_invites(invites, u, c, o[u])[u][c]
                              ELSE invites[u][c]]]
            /\ effects' =
                 {Call("create_chat_invite_link", u, FirstAvailable(u)) : u \in targets}
                 \cup {Call("send_message", u, FirstAvailable(u)) :
                          u \in {v \in targets : InviteCreated(o[v])}}
                 \cup (IF sel = << >> THEN {} ELSE {Log("admin_mass_grant", 0)})
       /\ UNCHANGED << now, users, member, channels, sweep, chan, glog, fsm >>

(***************************************************************************)
(* The day arithmetic on its own                                           *)
(***************************************************************************)
\* the clock advances by one tick
Elapse ==
    /\ now < MaxDay * TicksPerDay
    /\ now' = now + 1
    /\ effects' = {}
    /\ glog' = << >>
    /\ UNCHANGED << users, member, channels, user_channels, invites, sweep, chan, fsm >>

BonusGifts == {-10, 10}

\* get_available_channels called for u, with the effective days it read
call_get_available_channels(u) ==
    /\ Idle
    /\ effects' = {}
    /\ glog' = << [op |-> "get_available_channels", user |-> u, channel |-> 0,
                   days |-> get_effective_days(users, u, now),
                   available |-> get_available_channels(users, user_channels, u, now)] >>
    /\ UNCHANGED << now, users, member, channels, user_channels, invites, sweep, chan, fsm >>

(***************************************************************************)
(* Milestone reminders (services/scheduler.py, handlers/user.py)           *)
(***************************************************************************)
days_before == 3

\* UserModelExtended.get_users_approaching_milestone: the (user, channel)
\* pairs of the CROSS JOIN that pass the WHERE clause
get_users_approaching_milestone(us, uc, ch, t) ==
    {p \in Users \X DOMAIN ch :
        /\ us[p[1]].registered
        /\ us[p[1]].is_active
        /\ ~ch[p[2]].is_main
        /\ us[p[1]].notifications_enabled
        /\ ch[p[2]].days_required - days_subscribed(us, p[1], t) \in 1..days_before
        /\ ~has_access(uc, p[1], p[2])}

\* send_upcoming_notifications (lines 36-69): one reminder per pair
send_upcoming_notifications ==
    LET due == get_users_approaching_milestone(users, user_channels, channels, now)
    IN /\ Idle
       /\ effects' = {Call("channel_upcoming", p[1], p[2]) : p \in due}
       /\ glog' = << [op |-> "send_upcoming_notifications", user |-> 0, channel |-> 0,
                      sent |-> due] >>
       /\ UNCHANGED << now, users, member, channels, user_channels, invites, sweep, chan, fsm >>

\* handlers/user.py toggle_notifications (lines 241-259)
toggle_notifications(u, excl) ==
    /\ excl => Idle
    /\ users[u].registered
    /\ users' = [users EXCEPT ![u].notifications_enabled = ~@]
    /\ effects' = {}
    /\ UNCHANGED << now, member, channels, user_channels, invites, sweep, chan, glog, fsm >>

\* confirm_mass_revoke, lines 589-598: one holder of the loop; the except
\* branch deletes the row as the try branch does
MassRevokeRow_kept_on_error(uc, u, c, o) ==
    IF o = "ok" THEN revoke_access(uc, u, c) ELSE uc

MassRevokeRow(uc, u, c, o) ==
    IF o = "ok" THEN revoke_access(uc, u, c) ELSE revoke_access(uc, u, c)

RECURSIVE MassRevokeRows(_, _, _, _)
MassRevokeRows(seq, uc, c, o) ==
    IF seq = << >> THEN uc
    ELSE MassRevokeRows(Tail(seq), MassRevokeRow(uc, Head(seq), c, o[Head(seq)]), c, o)

\* confirm_mass_revoke (lines 571-612); o[u] is the outcome of the
\* ban_chat_member / unban_chat_member pair for holder u, revoked the tally
\* written to the action log and shown to the admin
confirm_mass_revoke(c, excl) ==
    LET users_with_access == get_users_with_channel_access(user_channels, users, c)
        holders == SeqToSet(users_with_access)
    IN /\ excl => Idle
       /\ \E o \in [Users -> Outcome] :
            /\ \A u \in Users \ holders : o[u] = "ok"
            /\ user_channels' = MassRevokeRows(users_with_access, user_channels, c, o)
            /\ invites' = forget(invites, user_channels,
                                 MassRevokeRows(users_with_access, user_channels, c, o))
            /\ effects' = {Call("ban_chat_member", u, c) : u \in holders}
                           \cup {Call("unban_chat_member", u, c) :
                                    u \in {v \in holders : o[v] = "ok"}}
                           \cup {Log("admin_mass_revoke", 0)}
            /\ glog' = << [op |-> "confirm_mass_revoke", user |-> 0, channel |-> c,
                           revoked |-> Cardinality({v \in holders : o[v] = "ok"})] >>
       /\ UNCHANGED << now, users, member, channels, sweep, chan, fsm >>

\* do_broadcast (lines 873-909): one message to every active user, failures
\* counted, ADMIN_BROADCAST logged
do_broadcast(excl) ==
    /\ excl => Idle
    /\ effects' = {Call("send_message", u, 0) : u \in SeqToSet(get_active_users(users))}
                   \cup {Log("admin_broadcast", 0)}
    /\ UNCHANGED << now, users, member, channels, user_channels, invites, sweep, chan, glog, fsm >>

\* config.py lines 10-14: the ids read from the environment; 9 is an admin,
\* user 1 of the bot is not
ADMIN_IDS == {9}
Initiators == {1, 9}

\* variant of is_admin that lets everybody in
is_admin_anybody(user_id) == TRUE

is_admin(user_id) == user_id \in ADMIN_IDS

\* the first lines of every handler of admin_router: if not
\* is_admin(from_user.id) the handler answers "no access" to the sender, or
\* nothing, and returns; the attempt is kept in glog for the properties
admin_handler(from_user, Handler) ==
    IF is_admin(from_user) THEN Handler
    ELSE /\ effects' = {}
         /\ glog' = << [op |-> "refused", user |-> from_user, channel |-> 0] >>
         /\ UNCHANGED << now, users, member, channels, user_channels, invites,
                         sweep, chan, fsm >>

(***************************************************************************)
(* The admin's dialogs (handlers/admin.py): the step is kept in the        *)
(* FSMContext between the button that opens a dialog and the text          *)
(* messages that feed it                                                   *)
(***************************************************************************)
\* edit_channel (lines 298-326) and bonus_days_start (lines 915-934): the
\* button that opens a dialog
open_dialog(step, c) ==
    /\ Idle
    /\ step \in {"waiting_channel_days", "waiting_user_id_for_bonus"}
    /\ (step = "waiting_channel_days") = (c \in AuxChannels)
    /\ fsm' = [state |-> step, channel |-> c, user |-> 0, cancelled |-> FALSE]
    /\ effects' = {}
    /\ UNCHANGED << now, users, member, channels, user_channels, invites, sweep, chan, glog >>

\* the dialog's Cancel button: callback data admin:channels or admin:users,
\* handled by admin_channels (lines 273-295) and admin_users (lines 367-392),
\* which redraw the menu and take no FSMContext
cancel_dialog ==
    /\ Idle
    /\ fsm.state # "none"
    /\ fsm' = [fsm EXCEPT !.cancelled = TRUE]
    /\ effects' = {}
    /\ UNCHANGED << now, users, member, channels, user_channels, invites, sweep, chan, glog >>

AdminTexts == {-10, 1, 10}

\* a text message of the admin, routed by the state filter to
\* process_channel_days (lines 329-360), process_user_for_bonus (lines
\* 937-976) or process_bonus_days (lines 979-1010); without a dialog no
\* handler takes it
admin_message(text) ==
    /\ Idle
    /\ CASE fsm.state = "waiting_channel_days" ->
              IF text < 0
              THEN /\ UNCHANGED << users, channels, fsm >>
                   /\ effects' = {}
              ELSE /\ channels' = [channels EXCEPT ![fsm.channel].days_required = text]
                   /\ effects' = {Log("channel_settings_changed", 0)}
                   /\ fsm' = NoDialog
                   /\ UNCHANGED users
         [] fsm.state = "waiting_user_id_for_bonus" ->
              /\ fsm' = IF text \in Users /\ users[text].registered
                        THEN [fsm EXCEPT !.state = "waiting_bonus_days", !.user = text]
                        ELSE fsm
              /\ effects' = {}
              /\ UNCHANGED << users, channels >>
         [] fsm.state = "waiting_bonus_days" ->
              /\ users[fsm.user].bonus_days + text \in -MaxBonus..MaxBonus
              /\ users' = add_bonus_days(users, fsm.user, text)
              /\ effects' = {Log(IF text > 0 THEN "bonus_days_added"
                                            ELSE "bonus_days_removed", fsm.user)}
              /\ fsm' = NoDialog
              /\ UNCHANGED channels
         [] OTHER ->
              /\ effects' = {}
              /\ UNCHANGED << users, channels, fsm >>
    /\ UNCHANGED << now, member, user_channels, invites, sweep, chan, glog >>

(***************************************************************************)
(* Specifications                                                          *)
(***************************************************************************)
\* the steps of a sweep between two awaits
SweepStep ==
    \/ \E s \in SweepIds : downgrade_next_channel(s)
    \/ \E s \in SweepIds : downgrade_user(s)
    \/ \E s \in SweepIds : liveness_start(s)
    \/ \E s \in SweepIds : liveness_user(s)
    \/ \E s \in SweepIds : sweep_grant_check(s)
    \/ \E s \in SweepIds : sweep_grant_commit(s)
    \/ \E s \in SweepIds : sweep_finish(s)

\* the steps of a /channels handler between two awaits
ChannelsStep ==
    \/ chan_grant_check
    \/ chan_grant_commit

\* the environment, registration and one sweep at a time
Core ==
    \/ Tick(TRUE)
    \/ \E u \in Users : on_user_joined(u, TRUE)
    \/ \E u \in Users, d \in BOOLEAN : \E run \in RevokeRuns(u) :
          on_user_left(MAIN_CHANNEL_ID, u, d, run, TRUE)
    \/ \E u \in Users, o \in Outcome : cmd_start(u, o, TRUE)
    \/ sweep_start("daily_check_job", TRUE)
    \/ SweepStep

\* handlers run one at a time: no two coroutines are in flight together
Next ==
    \/ Core
    \/ \E u \in Users, d \in BonusInputs : process_bonus_days(u, d, TRUE)

Spec == Init /\ [][Next]_vars

\* Core with the administrative edit of a channel's days_required
NextEdit ==
    \/ Core
    \/ \E c \in AuxChannels, d \in DaysInputs : process_channel_days(c, d, TRUE)

SpecEdit == Init /\ [][NextEdit]_vars

\* subscribed users, bans, and every path that grants: the sweep, /channels
\* and the administrative manual grant, one handler at a time
NextBan ==
    \/ \E u \in Users, o \in Outcome : cmd_start(u, o, TRUE)
    \/ \E u \in Users : do_ban_user(u, TRUE)
    \/ \E u \in Users : unban_user(u, TRUE)
    \/ sweep_start("daily_check_job", TRUE)
    \/ SweepStep
    \/ \E u \in Users : chan_start(u, TRUE)
    \/ ChannelsStep
    \/ \E u \in Users, c \in AuxChannels : process_manual_grant(u, c, TRUE)

SpecBan == Subscribed(32 * TicksPerDay) /\ [][NextBan]_vars

\* grant_channel_access called again and again, one call at a time
NextGrant ==
    \/ Tick(TRUE)
    \/ \E u \in Users, c \in AuxChannels, o \in Outcome : grant_channel_access(u, c, o)
    \/ \E u \in Users, c \in AuxChannels : revoke_channel(u, c)

SpecGrant == Subscribed(0) /\ [][NextGrant]_vars

\* the two revocations called again and again on users holding Grants with
\* and without a delivered invitation, one call at a time
NextRevoke ==
    \/ \E u \in Users, c \in AuxChannels, o \in Outcome : grant_channel_access(u, c, o)
    \/ \E u \in Users, c \in AuxChannels, mid \in MsgIds : invitation_delivered(u, c, mid)
    \/ \E u \in Users : \E run \in RevokeRuns(u) : call_revoke_user_access(u, run)
    \/ \E u \in Users, c \in AuxChannels, ban_o \in Outcome, send_o \in Outcome :
          revoke_unqualified_channel_access(u, c, ban_o, send_o)

SpecRevoke == Subscribed(32 * TicksPerDay) /\ [][NextRevoke]_vars

\* coroutines of one event loop: the scheduled sweep and the sweep an admin
\* starts by hand (admin_run_check), interleaved at their awaits
NextSweeps ==
    \/ \E s \in SweepIds : sweep_start(s, FALSE)
    \/ SweepStep

SpecSweeps == Subscribed(32 * TicksPerDay) /\ [][NextSweeps]_vars

\* coroutines of one event loop: the scheduled sweep and a /channels handler,
\* interleaved at their awaits
NextAsync ==
    \/ sweep_start("daily_check_job", FALSE)
    \/ SweepStep
    \/ \E u \in Users : chan_start(u, FALSE)
    \/ ChannelsStep

SpecAsync == Subscribed(32 * TicksPerDay) /\ [][NextAsync]_vars

\* the store's writes on the rows of one user, called one at a time, each
\* statement succeeding or failing, while time passes
StoreUsers == {1}

NextStore ==
    \/ Tick(TRUE)
    \/ \E u \in StoreUsers, c \in AuxChannels, o \in Outcome, w \in BOOLEAN :
          grant_channel_access_io(u, c, o, w)
    \/ \E u \in StoreUsers, c \in AuxChannels, w \in BOOLEAN : call_grant_access(u, c, w)
    \/ \E u \in StoreUsers, c \in AuxChannels, mid \in MsgIds : invitation_delivered(u, c, mid)
    \/ \E u \in StoreUsers, c \in AuxChannels, w \in BOOLEAN : call_revoke_access(u, c, w)

SpecStore == Subscribed(0) /\ [][NextStore]_vars

\* every path that creates a Grant: the sweep, /channels, the manual grant
\* from the offered buttons and the mass grant, one handler at a time
NextPaths ==
    \/ Tick(TRUE)
    \/ sweep_start("daily_check_job", TRUE)
    \/ SweepStep
    \/ \E u \in Users : chan_start(u, TRUE)
    \/ ChannelsStep
    \/ \E u \in Users : \E c \in get_additional(channels) : process_manual_grant(u, c, TRUE)
    \/ \E range \in MassRanges : process_mass_grant(range, TRUE)

SpecPaths == Subscribed(32 * TicksPerDay) /\ [][NextPaths]_vars

\* subscribed users at every instant of the first MaxDay days, with bonus
\* days given and taken
NextDays ==
    \/ Elapse
    \/ \E u \in Users, d \in BonusGifts : process_bonus_days(u, d, TRUE)
    \/ \E u \in Users : call_get_available_channels(u)
    \/ send_upcoming_notifications
    \/ \E u \in Users : toggle_notifications(u, TRUE)

SpecDays == Subscribed(0) /\ [][NextDays]_vars

\* subscribed users who leave the main channel or another chat and come
\* back, with the sweep, one handler at a time
NextLeave ==
    \/ \E u \in Users : on_user_joined(u, TRUE)
    \/ \E chat \in ChannelIds, u \in Users, d \in BOOLEAN : \E run \in RevokeRuns(u) :
          on_user_left(chat, u, d, run, TRUE)
    \/ \E u \in Users, o \in Outcome : cmd_start(u, o, TRUE)
    \/ sweep_start("daily_check_job", TRUE)
    \/ SweepStep

SpecLeave == Subscribed(32 * TicksPerDay) /\ [][NextLeave]_vars

\* the administrative changes of a user's ban, a user's bonus and a
\* channel's threshold, on users who hold Grants
NextAdmin ==
    \/ \E u \in Users : do_ban_user(u, TRUE)
    \/ \E u \in Users : unban_user(u, TRUE)
    \/ \E u \in Users, d \in BonusGifts : process_bonus_days(u, d, TRUE)
    \/ \E c \in AuxChannels, d \in DaysInputs : process_channel_days(c, d, TRUE)

SpecAdmin == Holding(32 * TicksPerDay) /\ [][NextAdmin]_vars

\* NextLeave with the administrative ban and its removal, /channels and
\* the notification setting
NextReturn ==
    \/ NextLeave
    \/ \E u \in Users : do_ban_user(u, TRUE)
    \/ \E u \in Users : unban_user(u, TRUE)
    \/ \E u \in Users : chan_start(u, TRUE)
    \/ ChannelsStep
    \/ \E u \in Users : toggle_notifications(u, TRUE)

SpecReturn == Subscribed(32 * TicksPerDay) /\ [][NextReturn]_vars

\* one sweep interleaved with the leave callback of the primary channel
NextRace ==
    \/ sweep_start("daily_check_job", FALSE)
    \/ SweepStep
    \/ \E u \in Users, d \in BOOLEAN : \E run \in RevokeRuns(u) :
          on_user_left(MAIN_CHANNEL_ID, u, d, run, FALSE)

SpecRace == Subscribed(32 * TicksPerDay) /\ [][NextRace]_vars

\* leaves, returns, manual grants and bonus changes, then the daily sweep
\* and the sweep the admin triggers as soon as the daily
\* sweep has completed, with nothing in between; the report of the daily
\* sweep is dropped first, so that the triggered sweep runs once after it
NextAgain ==
    \/ \E u \in Users : on_user_joined(u, TRUE)
    \/ \E u \in Users, d \in BOOLEAN : \E run \in RevokeRuns(u) :
          on_user_left(MAIN_CHANNEL_ID, u, d, run, TRUE)
    \/ \E u \in Users : \E c \in get_additional(channels) : process_manual_grant(u, c, TRUE)
    \/ \E u \in Users, d \in BonusInputs : process_bonus_days(u, d, TRUE)
    \/ sweep_start("daily_check_job", TRUE)
    \/ sweep["daily_check_job"].pc = "done" /\ sweep_start("run_check_now", FALSE)
    \/ \E s \in SweepIds : downgrade_next_channel(s)
    \/ \E s \in SweepIds : downgrade_user(s)
    \/ \E s \in SweepIds : liveness_start(s)
    \/ \E s \in SweepIds : liveness_user(s)
    \/ \E s \in SweepIds : sweep_grant_check(s)
    \/ \E s \in SweepIds : sweep_grant_commit(s)
    \/ sweep_finish("daily_check_job")
    \/ sweep["daily_check_job"].pc = "idle" /\ sweep_finish("run_check_now")

SpecAgain == Subscribed(32 * TicksPerDay) /\ [][NextAgain]_vars

\* the operations of the admin panel, requested by from_user
AdminRequest(from_user) ==
    \/ admin_handler(from_user, process_channel_days(CHANNELS_CONFIG[1].id,
                                     CHANNELS_CONFIG[2].days_required, TRUE))
    \/ \E u \in StoreUsers, d \in BonusInputs :
          admin_handler(from_user, process_bonus_days(u, d, TRUE))
    \/ \E u \in StoreUsers : admin_handler(from_user, do_ban_user(u, TRUE))
    \/ \E u \in StoreUsers : admin_handler(from_user, unban_user(u, TRUE))
    \/ \E u \in StoreUsers :
          admin_handler(from_user, process_manual_grant(u, CHANNELS_CONFIG[2].id, TRUE))
    \/ \E range \in MassRanges : admin_handler(from_user, process_mass_grant(range, TRUE))
    \/ admin_handler(from_user, confirm_mass_revoke(CHANNELS_CONFIG[1].id, TRUE))
    \/ admin_handler(from_user, sweep_start("run_check_now", TRUE))
    \/ admin_handler(from_user, do_broadcast(TRUE))

NextPanel ==
    \/ \E from_user \in Initiators : AdminRequest(from_user)
    \/ SweepStep

SpecPanel == Holding(32 * TicksPerDay) /\ [][NextPanel]_vars

\* manual grants and mass revokes
NextMassRevoke ==
    \/ \E u \in Users, c \in get_additional(channels) : process_manual_grant(u, c, TRUE)
    \/ \E c \in get_additional(channels) : confirm_mass_revoke(c, TRUE)

SpecMassRevoke == Holding(32 * TicksPerDay) /\ [][NextMassRevoke]_vars

\* the admin opens dialogs, cancels them and types
NextDialog ==
    \/ \E c \in AuxChannels : open_dialog("waiting_channel_days", c)
    \/ open_dialog("waiting_user_id_for_bonus", 0)
    \/ cancel_dialog
    \/ \E text \in AdminTexts : admin_message(text)

SpecDialog == Holding(32 * TicksPerDay) /\ [][NextDialog]_vars

(***************************************************************************)
(* Properties                                                              *)
(***************************************************************************)
Configured == {i \in ConfigIdx : CHANNELS_CONFIG[i].id # 0}

EffectiveDays(u) == get_effective_days(users, u, now)

Qualifies(u, i) == EffectiveDays(u) >= CHANNELS_CONFIG[i].days_required

Entitled(u) == users[u].registered /\ users[u].is_active /\ ~users[u].is_banned

Grant(u, c) == \E r \in user_channels : r.user_id = u /\ r.channel_id = c

NoUnqualifiedGrant ==
    \A u \in Users, i \in Configured :
        Grant(u, CHANNELS_CONFIG[i].id) => Qualifies(u, i)

C4_ReactivationResetsClock ==
    \A u \in Users : Log("user_reactivated", u) \in effects =>
        /\ users[u].is_active
        /\ users[u].join_date = now
        /\ users[u].bonus_days = 0
        /\ users[u] = reactivate(users, u, now)[u]
        /\ EffectiveDays(u) = 0
        /\ get_available_channels(users, user_channels, u, now) = << >>

C10_FailedQueryLeavesState ==
    [][\A s \in SweepIds, u \in Users :
          (u \in sweep'[s].query_failed /\ u \notin sweep[s].query_failed) =>
              /\ users'[u] = users[u]
              /\ revoke_all_info(user_channels', u) = revoke_all_info(user_channels, u)
      ]_vars

Rows(u, c) == {r \in user_channels : r.user_id = u /\ r.channel_id = c}

TwoCalls == Len(glog) = 2

\* C6 as stated: after two calls of grant_channel_access(u, c) in succession
\* there is exactly one Grant row and exactly one invitation link for (u, c),
\* and the second call returned None without calling the platform.
C6_GrantIdempotence ==
    TwoCalls =>
        LET u == glog[2].user
            c == glog[2].channel
        IN /\ Cardinality(Rows(u, c)) = 1
           /\ invites[u][c] = 1
           /\ ~glog[2].link /\ ~glog[2].asked

\* C6 amended: after two calls of grant_channel_access(u, c) in succession
\* there is at most one Grant row and at most one invitation link for (u, c),
\* as many rows as links; unless the platform refused the link in the first
\* call, there is exactly one of each and the second call returned None
\* without calling the platform.
C6_GrantIdempotenceIfLinkCreated ==
    TwoCalls =>
        LET u == glog[2].user
            c == glog[2].channel
            refused == glog[1].asked /\ ~glog[1].link
        IN /\ Cardinality(Rows(u, c)) <= 1
           /\ invites[u][c] = Cardinality(Rows(u, c))
           /\ ~refused =>
                 /\ Cardinality(Rows(u, c)) = 1
                 /\ ~glog[2].link /\ ~glog[2].asked

\* the first call created the link and the row, the second was declined
C6_Witness ==
    /\ TwoCalls
    /\ glog[1].link /\ glog[1].asked
    /\ ~glog[2].link /\ ~glog[2].asked
    /\ Cardinality(Rows(glog[2].user, glog[2].channel)) = 1
    /\ invites[glog[2].user][glog[2].channel] = 1

InProgress(s) == sweep[s].pc \notin {"idle", "done", "aborted"}

\* C7 as stated: however two grant_channel_access calls for one (user,
\* channel) interleave, at most one invitation link is created for the pair.
C7_AtMostOneInvitePerPair ==
    \A u \in Users, c \in AuxChannels : invites[u][c] <= 1

\* C8 as stated: while one execution of process_daily_check is in progress no
\* other one is, so no user is processed by two sweeps at the same time.
C8_SweepsNeverInterleave ==
    \A s, t \in SweepIds : (InProgress(s) /\ InProgress(t)) => s = t

\* the requirement of channel c as the channels table holds it
DaysRequired(c) == channels[c].days_required

\* C3 as stated: a sweep decides with the days_required an admin has set:
\* when it has completed, no Grant is left whose holder's effective days are
\* below the channel's current requirement, and every active user whose
\* platform calls succeeded holds a Grant for every channel whose current
\* requirement the user's effective days reach.
C3_SweepUsesEditedDays ==
    \A s \in SweepIds : sweep[s].pc = "done" =>
        \A u \in Users, c \in AuxChannels :
            /\ Grant(u, c) => EffectiveDays(u) >= DaysRequired(c)
            /\ (Entitled(u) /\ u \notin sweep[s].failed
                            /\ EffectiveDays(u) >= DaysRequired(c)) => Grant(u, c)

InvitationCalls ==
    {e \in effects : \/ e.op = "create_chat_invite_link"
                     \/ e.op = "send_message" /\ e.channel # 0}

\* C5 as stated: no grant path creates an invite link or sends an invitation
\* for a user whose is_banned is true.
C5_BannedNeverGranted ==
    \A e \in InvitationCalls : ~users[e.user].is_banned

\* the call glog ends with
LastCall == glog[Len(glog)]

FullRevocation == glog # << >> /\ LastCall.op = "revoke_user_access"

PartialRevocation == glog # << >> /\ LastCall.op = "revoke_unqualified_channel_access"

RowsOf(u) == {r \in user_channels : r.user_id = u}

\* C11: after revoke_user_access(u) returns, u holds no Grant, u is inactive,
\* the returned list is exactly the non-null message references of the Grants
\* u held when it was called, and the Grants of the other users are as they
\* were.
C11_FullRevocationPostcondition ==
    (FullRevocation /\ LastCall.returned) =>
        /\ RowsOf(LastCall.user) = {}
        /\ ~users[LastCall.user].is_active
        /\ LastCall.message_ids =
               {m \in MsgIds : \E r \in LastCall.held : r.message_id = m}
        /\ user_channels = LastCall.others
        /\ \A v \in Users \ {LastCall.user} :
               {r \in LastCall.others : r.user_id = v} = RowsOf(v)

\* a returned full revocation of a user who held a delivered and an
\* undelivered Grant, beside another user's Grant
C11_Witness ==
    /\ FullRevocation /\ LastCall.returned
    /\ \E r \in LastCall.held : r.message_id = NoMessage
    /\ \E r \in LastCall.held : r.message_id # NoMessage
    /\ LastCall.message_ids # {}
    /\ \E v \in Users \ {LastCall.user} : RowsOf(v) # {}

\* C12 as stated: whatever fails while the user is removed from one channel,
\* the removal is attempted for every channel the user held, and the user
\* ends inactive with all Grant rows deleted.
C12_RevocationBestEffort ==
    FullRevocation =>
        /\ LastCall.tried = {r.channel_id : r \in LastCall.held}
        /\ RowsOf(LastCall.user) = {}
        /\ ~users[LastCall.user].is_active

\* C13 as stated: revoke_user_access on a user with no Grant returns an empty
\* list, raises nothing and makes no platform call; two calls in succession
\* leave the state one call leaves.
C13_FullRevocationIdempotent ==
    /\ (FullRevocation /\ LastCall.held = {}) =>
          /\ LastCall.returned
          /\ LastCall.message_ids = {}
          /\ effects = {}
    /\ (FullRevocation /\ Len(glog) = 2) =>
          /\ user_channels = glog[1].after.rows
          /\ users = glog[1].after.users

\* C14: revoke_unqualified_channel_access(u, c) deletes exactly the Grant
\* (u, c): the user's other Grants, the other users' Grants and every
\* user's row, is_active included, are as they were.
C14_PartialRevocationFrame ==
    PartialRevocation =>
        /\ user_channels =
               {r \in LastCall.rows :
                    ~(r.user_id = LastCall.user /\ r.channel_id = LastCall.channel)}
        /\ users = LastCall.users

\* a partial revocation that deleted a Grant of an active user who holds
\* another one, beside another user's Grant
C14_Witness ==
    /\ PartialRevocation /\ LastCall.had
    /\ ~Grant(LastCall.user, LastCall.channel)
    /\ RowsOf(LastCall.user) # {}
    /\ users[LastCall.user].is_active
    /\ \E v \in Users \ {LastCall.user} : RowsOf(v) # {}

\* C15 as stated: revoke_unqualified_channel_access(u, c) without a Grant
\* (u, c) calls the platform for nothing, neither removal nor notification,
\* and leaves the store as it was.
C15_RevokeWithoutGrantIsNoOp ==
    (PartialRevocation /\ ~LastCall.had) =>
        /\ effects = {}
        /\ user_channels = LastCall.rows
        /\ users = LastCall.users

\* u lost a Grant or was deactivated in this step
Revoked(u) ==
    \/ \E r \in user_channels : r.user_id = u /\ r \notin user_channels'
    \/ users[u].is_active /\ ~users'[u].is_active

Audited(u) ==
    \/ Log("user_left", u) \in effects'
    \/ Log("channel_access_revoked", u) \in effects'

\* C16 as stated: every step that revokes, a full revocation by the leave
\* callback or by the sweep or a partial revocation that deletes a Grant,
\* appends an audit entry for the user.
C16_EveryRevocationAudited ==
    [][\A u \in Users : Revoked(u) => Audited(u)]_vars

PastDowngrade(s) == sweep[s].pc \in {"downgraded", "liveness", "grant", "invite", "done"}

\* C17: in every sweep, while the downgrade pass runs no user has been taken
\* up by the liveness + grant pass (no membership query, no full revocation,
\* no invitation); once that pass has started, every configured channel and
\* every listed holder has been processed and no partial revocation follows.
C17_DowngradeBeforeGrant ==
    /\ [](\A s \in SweepIds :
            /\ sweep[s].pc = "downgrade" =>
                  /\ sweep[s].snapshot = {} /\ sweep[s].visited = {}
                  /\ sweep[s].failed = {} /\ sweep[s].gone = {}
                  /\ sweep[s].stats.checked = 0
                  /\ sweep[s].stats.new_access_granted = 0
                  /\ sweep[s].stats.deactivated = 0
            /\ PastDowngrade(s) =>
                  /\ sweep[s].ci = Len(CHANNELS_CONFIG)
                  /\ sweep[s].holders = << >>
                  /\ sweep[s].holders_done = sweep[s].holders_seen)
    /\ [][\A s \in SweepIds :
            (PastDowngrade(s) /\ sweep'[s].pc # "idle") =>
                /\ PastDowngrade(s)'
                /\ sweep'[s].revoked = sweep[s].revoked
                /\ sweep'[s].stats.unqualified_revoked = sweep[s].stats.unqualified_revoked
         ]_vars

\* a completed sweep that revoked a Grant partially, then deactivated a user
\* and delivered an invitation
C17_Witness ==
    \E s \in SweepIds :
        /\ sweep[s].pc = "done"
        /\ sweep[s].revoked # {}
        /\ sweep[s].stats.unqualified_revoked >= 1
        /\ sweep[s].stats.deactivated >= 1
        /\ sweep[s].stats.new_access_granted >= 1

\* C18 as stated: a user whose membership the sweep found gone is fully
\* revoked and counted as deactivated, and holds no Grant for the rest of
\* that sweep.
C18_GoneUserDeactivatedNotGranted ==
    \A s \in SweepIds :
        /\ sweep[s].stats.deactivated = Cardinality(sweep[s].gone)
        /\ \A u \in sweep[s].gone :
              /\ ~users[u].is_active
              /\ RowsOf(u) = {}
              /\ \A c \in AuxChannels : invites[u][c] = 0

\* the invitation link of (u, c) was created in this step
LinkCreated(u, c) == invites'[u][c] = invites[u][c] + 1

\* the sweep counted a delivered invitation in this step
DeliveryCounted ==
    \E s \in SweepIds :
        sweep'[s].stats.new_access_granted = sweep[s].stats.new_access_granted + 1

\* C19: in the step that creates the invitation link of (u, c) the Grant
\* (u, c) is recorded; it carries the delivered message's reference when the
\* delivery succeeded and a null reference when it failed.
C19_TwoStepCommit ==
    [][\A u \in Users, c \in AuxChannels : LinkCreated(u, c) =>
          \E r \in user_channels' :
              /\ r.user_id = u /\ r.channel_id = c
              /\ DeliveryCounted => r.message_id \in MsgIds
              /\ ~DeliveryCounted => r.message_id = NoMessage
      ]_vars

\* a completed sweep after which one Grant carries a message reference and
\* another, whose delivery failed, carries none
C19_Witness ==
    \E s \in SweepIds :
        /\ sweep[s].pc = "done"
        /\ sweep[s].stats.new_access_granted >= 1
        /\ \E r \in user_channels : r.message_id \in MsgIds
        /\ \E r \in user_channels : r.message_id = NoMessage /\ r.user_id \in sweep[s].failed

\* C20 as stated: for an active, still qualifying user holding a Grant whose
\* invitation was not delivered, the channel is in the list show_channels derives
\* (get_available_channels), so /channels invites the user again.
C20_UndeliveredGrantCanBeRetriggered ==
    \A r \in user_channels, i \in Configured :
        (/\ CHANNELS_CONFIG[i].id = r.channel_id
         /\ r.message_id = NoMessage
         /\ users[r.user_id].is_active
         /\ Qualifies(r.user_id, i)) =>
            i \in SeqToSet(get_available_channels(users, user_channels, r.user_id, now))

(***************************************************************************)
(* C21: when create_chat_invite_link fails (TelegramBadRequest or any      *)
(* other exception), grant_channel_access returns None and persists        *)
(* nothing: the store is as it was and holds no Grant for the pair.        *)
(***************************************************************************)
FailedInvite ==
    /\ glog # << >>
    /\ LastCall.op = "grant_channel_access"
    /\ LastCall.asked
    /\ ~LastCall.link

C21_FailedInvitePersistsNothing ==
    [][(effects' # {} /\ FailedInvite')
          => /\ user_channels' = user_channels
             /\ users' = users
             /\ channels' = channels
             /\ invites' = invites
             /\ \A r \in user_channels' :
                    ~(r.user_id = LastCall'.user /\ r.channel_id = LastCall'.channel)]_vars

\* a failed call on a store that already holds rows
C21_Witness ==
    /\ FailedInvite
    /\ effects = {Call("create_chat_invite_link", LastCall.user, LastCall.channel)}
    /\ ~Grant(LastCall.user, LastCall.channel)
    /\ user_channels # {}
    /\ now > 0

(***************************************************************************)
(* C22: a failed store write is never swallowed: grant_channel_access      *)
(* returns an invite link only for a pair whose Grant row was persisted.   *)
(***************************************************************************)
C22_StoreFailureReported ==
    (glog # << >> /\ LastCall.op = "grant_channel_access" /\ LastCall.link)
        => Grant(LastCall.user, LastCall.channel)

(***************************************************************************)
(* C23: when a sweep completes with no other operation in flight, every    *)
(* Grant (u, c) in the store has effectiveDays(u) >= c.days_required, u    *)
(* active and u not banned, whatever happened before the sweep.  Stated    *)
(* for the sweeps in which no platform call failed.                        *)
(***************************************************************************)
CleanSweepDone(s) ==
    /\ sweep[s].pc = "done"
    /\ sweep[s].failed = {}
    /\ sweep[s].raised = {}

C23_SweepRestoresInvariant ==
    \A s \in SweepIds :
        CleanSweepDone(s) =>
            \A r \in user_channels :
                /\ EffectiveDays(r.user_id) >= DaysRequired(r.channel_id)
                /\ users[r.user_id].is_active
                /\ ~users[r.user_id].is_banned

(***************************************************************************)
(* C24: the store holds at most one Grant per (user, channel) pair, and    *)
(* grant_access on a pair that has a row is a no-op: the row keeps its     *)
(* timestamp and its message reference.                                    *)
(***************************************************************************)
OneRowPerPair ==
    \A u \in Users, c \in ChannelIds : Cardinality(Rows(u, c)) <= 1

GrantAccessCalled == glog # << >> /\ LastCall.op = "grant_access"

C24_OneGrantPerPair ==
    [][/\ OneRowPerPair'
       /\ (GrantAccessCalled' /\ has_access(user_channels, LastCall'.user, LastCall'.channel))
              => user_channels' = user_channels]_vars

\* grant_access has returned True for a pair whose row is older and carries
\* the id of a delivered invitation
C24_Witness ==
    /\ GrantAccessCalled
    /\ LastCall.returned
    /\ \E r \in Rows(LastCall.user, LastCall.channel) :
          r.message_id # NoMessage /\ r.granted_at < now

(***************************************************************************)
(* C25: no Grant row ever exists for the primary channel, whichever path   *)
(* created the rows: sweep, /channels, mass grant or manual grant.         *)
(***************************************************************************)
C25_NoGrantForPrimaryChannel ==
    \A r \in user_channels :
        r.channel_id # MAIN_CHANNEL_ID /\ ~channels[r.channel_id].is_main

\* an admin has just granted by hand, and the user holds every other channel
C25_Witness ==
    \E u \in Users :
        /\ Log("admin_manual_grant", u) \in effects
        /\ {r.channel_id : r \in RowsOf(u)} = AuxChannels
        /\ \E v \in Users \ {u} : RowsOf(v) # {}

(***************************************************************************)
(* C26: get_effective_days returns an integer >= 0 for every user and      *)
(* every reachable bonus_days, a negative bonus larger than the elapsed    *)
(* days included.                                                          *)
(***************************************************************************)
C26_EffectiveDaysNonNegative ==
    \A u \in Users : get_effective_days(users, u, now) >= 0

(***************************************************************************)
(* C27: effective days are the whole elapsed days since join_date,         *)
(* truncated, plus the signed bonus_days; a user who joined 25 days ago    *)
(* and has 10 bonus days has 35 and qualifies for a 32-day channel.        *)
(***************************************************************************)
C27_EffectiveDaysIsElapsedPlusBonus ==
    \A u \in Users :
        users[u].registered =>
            LET elapsed == now - users[u].join_date
                eff == get_effective_days(users, u, now)
                whole == eff - users[u].bonus_days
                av == get_available_channels(users, user_channels, u, now)
            IN /\ whole * TicksPerDay <= elapsed
               /\ elapsed < (whole + 1) * TicksPerDay
               /\ (whole = 25 /\ users[u].bonus_days = 10) =>
                     /\ eff = 35
                     /\ \E i \in SeqToSet(av) : CHANNELS_CONFIG[i].days_required = 32

\* the query of a user in the last tick of day 25 who has 10 bonus days
C27_Witness ==
    \E u \in Users :
        /\ now - users[u].join_date = 26 * TicksPerDay - 1
        /\ users[u].bonus_days = 10
        /\ glog # << >>
        /\ LastCall.op = "get_available_channels"
        /\ LastCall.user = u
        /\ LastCall.days = 35
        /\ LastCall.available # << >>

(***************************************************************************)
(* C28: for an active user get_available_channels returns exactly the      *)
(* catalog channels other than the primary one whose days_required is at   *)
(* most the user's effective days and for which the user holds no Grant.   *)
(* With the channels of 32 and 64 days: nothing at day 31, the first at    *)
(* day 32, and at day 64 the sweep grants the second and leaves the row    *)
(* of the first as it is.                                                  *)
(***************************************************************************)
Available(u) == SeqToSet(get_available_channels(users, user_channels, u, now))

Due(u) ==
    {i \in Configured : /\ CHANNELS_CONFIG[i].days_required <= EffectiveDays(u)
                        /\ ~Grant(u, CHANNELS_CONFIG[i].id)}

C28_AvailableChannelsExact ==
    [][/\ \A u \in Users :
            (users[u].registered /\ users[u].is_active) =>
                /\ Available(u) = Due(u)
                /\ EffectiveDays(u) = 31 => Available(u) = {}
                /\ (EffectiveDays(u) = 32 /\ RowsOf(u) = {}) => Available(u) = {1}
                /\ (EffectiveDays(u) = 64 /\ {r.channel_id : r \in RowsOf(u)} = {2})
                      => Available(u) = {2}
       /\ \A s \in SweepIds :
            sweep[s].pc = "invite" => user_channels \subseteq user_channels']_vars

\* at day 64 the sweep has just granted the 64-day channel to a user whose
\* row for the 32-day channel dates from day 32
C28_Witness ==
    \E u \in Users :
        /\ EffectiveDays(u) = 64
        /\ sweep["daily_check_job"].pc \notin {"idle", "invite"}
        /\ Call("send_message", u, 3) \in effects
        /\ \E r \in RowsOf(u) : r.channel_id = 3 /\ r.granted_at = now
        /\ \E r \in RowsOf(u) : /\ r.channel_id = 2
                                 /\ r.granted_at = 32 * TicksPerDay
                                 /\ r.message_id # NoMessage

(***************************************************************************)
(* C29: a "user left" event for the primary channel runs the full          *)
(* revocation at once, without waiting for the sweep: the user's Grants    *)
(* are gone in the same step, and when on_user_left completes the user is  *)
(* inactive; a leave event for any other chat changes nothing.             *)
(***************************************************************************)
LeftEvent(u, chat) == Call("chat_member_left", u, chat)

C29_LeaveFastPath ==
    [][\A u \in Users, chat \in ChannelIds :
          LeftEvent(u, chat) \in effects' =>
              IF chat = MAIN_CHANNEL_ID
              THEN /\ RowsOf(u)' = {}
                   /\ Log("user_left", u) \in effects' => ~users'[u].is_active
              ELSE UNCHANGED << users, member, channels, user_channels, invites >>]_vars

\* the handler has completed for a user who held a Grant, while the other
\* user keeps theirs
C29_Witness ==
    \E u \in Users :
        /\ LeftEvent(u, MAIN_CHANNEL_ID) \in effects
        /\ Log("user_left", u) \in effects
        /\ \E c \in AuxChannels : Call("ban_chat_member", u, c) \in effects
        /\ RowsOf(u) = {}
        /\ ~users[u].is_active
        /\ \E v \in Users \ {u} : RowsOf(v) # {}

(***************************************************************************)
(* C30: ban, unban, a change of bonus days and an edit of a channel's      *)
(* days each change only their own field and write one audit log entry;    *)
(* none creates or deletes a Grant, changes is_active or calls the         *)
(* platform; after a ban the user's Grants are still there.                *)
(***************************************************************************)
AdminLogs ==
    {"user_banned", "user_unbanned", "bonus_days_added", "bonus_days_removed",
     "channel_settings_changed"}

SameBut(u, field) ==
    /\ \A v \in Users \ {u} : users'[v] = users[v]
    /\ \A f \in DOMAIN users[u] \ {field} : users'[u][f] = users[u][f]

C30_AdminEditsFrame ==
    [][/\ user_channels' = user_channels
       /\ invites' = invites
       /\ member' = member
       /\ \A u \in Users : users'[u].is_active = users[u].is_active
       /\ \E e \in effects' : effects' = {e} /\ e.op \in AdminLogs
       /\ \A u \in Users :
            /\ Log("user_banned", u) \in effects' =>
                  SameBut(u, "is_banned") /\ users'[u].is_banned /\ channels' = channels
            /\ Log("user_unbanned", u) \in effects' =>
                  SameBut(u, "is_banned") /\ ~users'[u].is_banned /\ channels' = channels
            /\ (Log("bonus_days_added", u) \in effects'
                   \/ Log("bonus_days_removed", u) \in effects') =>
                  SameBut(u, "bonus_days") /\ channels' = channels
       /\ Log("channel_settings_changed", 0) \in effects' =>
            /\ users' = users
            /\ \E c \in AuxChannels :
                  /\ \A d \in ChannelIds \ {c} : channels'[d] = channels[d]
                  /\ channels'[c].is_main = channels[c].is_main]_vars

\* a user has just been banned and still holds the Grant and is active
C30_Witness ==
    \E u \in Users :
        /\ Log("user_banned", u) \in effects
        /\ users[u].is_banned
        /\ users[u].is_active
        /\ users[u].bonus_days # 0
        /\ RowsOf(u) # {}
        /\ \E c \in AuxChannels : DaysRequired(c) \in DaysInputs

(***************************************************************************)
(* C31: the manual grant overrides the day requirement: for a registered   *)
(* user without a Grant for the chosen channel, process_manual_grant with  *)
(* a platform that succeeds creates the Grant and sends the invitation,    *)
(* whatever the user's effective days.                                     *)
(***************************************************************************)
C31_ManualGrantOverridesDays ==
    \A u \in Users : \A c \in get_additional(channels) :
        (Idle /\ users[u].registered /\ ~Grant(u, c) /\ invites[u][c] < MaxInvites)
            => ENABLED (/\ process_manual_grant(u, c, TRUE)
                        /\ \E r \in user_channels' : r.user_id = u /\ r.channel_id = c
                        /\ invites'[u][c] = invites[u][c] + 1
                        /\ Call("send_message", u, c) \in effects'
                        /\ Log("admin_manual_grant", u) \in effects')

\* the admin has just granted the 64-day channel to a user with 32 days
C31_Witness ==
    \E u \in Users : \E c \in AuxChannels :
        /\ Log("admin_manual_grant", u) \in effects
        /\ Call("send_message", u, c) \in effects
        /\ Grant(u, c)
        /\ EffectiveDays(u) < DaysRequired(c)
        /\ users[u].is_active

(***************************************************************************)
(* C32: there is no terminal state: from every reachable state in which a  *)
(* registered user is inactive, the user can become active again by       *)
(* subscribing to the primary channel again and sending /start.            *)
(***************************************************************************)
CanReturn(u) ==
    IF u \in member
    THEN ENABLED (cmd_start(u, "ok", TRUE) /\ users'[u].is_active)
    ELSE ENABLED (on_user_joined(u, TRUE) /\ u \in member')

C32_InactiveCanAlwaysReactivate ==
    \A u \in Users :
        (Idle /\ users[u].registered /\ ~users[u].is_active) => CanReturn(u)

\* C32 as the code has it: true of the users who are not banned; /start
\* answers a banned user with the ban notice until an admin lifts the ban
C32_InactiveCanReactivateUnlessBanned ==
    \A u \in Users :
        (Idle /\ users[u].registered /\ ~users[u].is_active /\ ~users[u].is_banned)
            => CanReturn(u)

\* an inactive user who is not banned has subscribed again and sent /start
C32_Witness ==
    \E u \in Users :
        /\ Log("user_reactivated", u) \in effects
        /\ users[u].is_active
        /\ ~users[u].is_banned
        /\ u \in member

(***************************************************************************)
(* C33: the reminder pass computes the days left with the effective days   *)
(* of the entitlement calculator: a user is reminded about channel c iff   *)
(* the user is active with notifications enabled, holds no Grant for c,    *)
(* and c.days_required - effectiveDays(u) is in 1..3.                      *)
(***************************************************************************)
C33_ReminderUsesEffectiveDays ==
    [][(glog' # glog /\ glog' # << >> /\ LastCall'.op = "send_upcoming_notifications")
          => LastCall'.sent =
                {p \in Users \X AuxChannels :
                    /\ users[p[1]].registered
                    /\ users[p[1]].is_active
                    /\ users[p[1]].notifications_enabled
                    /\ ~Grant(p[1], p[2])
                    /\ DaysRequired(p[2]) - EffectiveDays(p[1]) \in 1..3}]_vars

(***************************************************************************)
(* C34: notifications_enabled never gates entitlement: two runs that       *)
(* differ only in a user's notifications_enabled end with the same Grants  *)
(* and the same is_active values.  Checked as the step condition of that   *)
(* statement: in every reachable state, every query and write the          *)
(* entitlement engine makes of the users table gives the same on the       *)
(* store with one user's setting flipped, and the only step that changes   *)
(* the setting changes nothing else.                                       *)
(***************************************************************************)
Flip(us, v) == [us EXCEPT ![v].notifications_enabled = ~@]

C34_NotificationsNeverGateEntitlement ==
    [][/\ \A v \in Users :
            /\ get_active_users(Flip(users, v)) = get_active_users(users)
            /\ \A u \in Users :
                 /\ get_available_channels(Flip(users, v), user_channels, u, now)
                       = get_available_channels(users, user_channels, u, now)
                 /\ get_effective_days(Flip(users, v), u, now)
                       = get_effective_days(users, u, now)
                 /\ register_user(Flip(users, v), u, now)
                       = Flip(register_user(users, u, now), v)
                 /\ \A b \in BOOLEAN :
                       update_active(Flip(users, v), u, b) = Flip(update_active(users, u, b), v)
            /\ \A c \in AuxChannels :
                 get_users_with_channel_access(user_channels, Flip(users, v), c)
                    = get_users_with_channel_access(user_channels, users, c)
       /\ \A v \in Users :
            users'[v].notifications_enabled # users[v].notifications_enabled =>
                /\ users' = Flip(users, v)
                /\ UNCHANGED << user_channels, invites, member, channels, sweep, chan, fsm >>
                /\ effects' = {}]_vars

\* the sweep has just granted a channel to an active user whose
\* notifications are off
C34_Witness ==
    \E u \in Users : \E c \in AuxChannels :
        /\ ~users[u].notifications_enabled
        /\ users[u].is_active
        /\ sweep["daily_check_job"].pc # "idle"
        /\ Call("send_message", u, c) \in effects
        /\ Grant(u, c)

(***************************************************************************)
(* C35: the admin's dialog state is cleared on cancellation: after the     *)
(* dialog's Cancel button, a text message from the admin is not consumed   *)
(* as dialog input and changes no channel and no user.                     *)
(***************************************************************************)
C35_CancelClearsDialog ==
    [][fsm.cancelled => (channels' = channels /\ users' = users)]_vars

(***************************************************************************)
(* C36: mass revoke of a channel does not fail atomically: every user who  *)
(* held a Grant for the channel when the operation started is processed    *)
(* whatever the platform answered for the others, none of them holds the   *)
(* Grant on completion, and the tally of successful removals is logged.    *)
(***************************************************************************)
MassRevokeDone(c) ==
    /\ Log("admin_mass_revoke", 0) \in effects'
    /\ glog' # << >> /\ LastCall'.op = "confirm_mass_revoke" /\ LastCall'.channel = c

C36_MassRevokeNotAtomic ==
    [][\A c \in AuxChannels : MassRevokeDone(c) =>
          LET holders == {u \in Users : has_access(user_channels, u, c)}
          IN /\ \A u \in holders :
                  /\ Call("ban_chat_member", u, c) \in effects'
                  /\ \A r \in user_channels' : ~(r.user_id = u /\ r.channel_id = c)
             /\ LastCall'.revoked =
                  Cardinality({u \in holders : Call("unban_chat_member", u, c) \in effects'})
             /\ \A r \in user_channels : r.channel_id # c => r \in user_channels'
      ]_vars

\* a mass revoke has just run over two holders; the platform failed for one
\* of them and answered for the other
C36_Witness ==
    /\ glog # << >> /\ LastCall.op = "confirm_mass_revoke" /\ LastCall.revoked = 1
    /\ Log("admin_mass_revoke", 0) \in effects
    /\ Cardinality({u \in Users : Call("ban_chat_member", u, LastCall.channel) \in effects}) = 2

(***************************************************************************)
(* C37: under any interleaving of a running sweep with the leave callback  *)
(* of the primary channel for the same user, once both have finished the   *)
(* user does not hold a Grant while is_active is false.                    *)
(***************************************************************************)
C37_NoGrantAfterLeaveRace ==
    (\A s \in SweepIds : sweep[s].pc = "idle") =>
        \A u \in Users : users[u].registered /\ ~users[u].is_active =>
            \A r \in user_channels : r.user_id # u

(***************************************************************************)
(* C38: a Grant created by the manual admin grant for an active, still     *)
(* subscribed user whose effective days are below the channel's            *)
(* days_required is still present after the next sweep.                    *)
(***************************************************************************)
\* the pairs the sweep s found in its downgrade pass whose holder is active,
\* subscribed and below the requirement; in SpecPaths such a Grant comes
\* from process_manual_grant only
Overridden(s) ==
    {p \in sweep[s].holders_seen :
        /\ users[p[1]].is_active
        /\ p[1] \in member
        /\ EffectiveDays(p[1]) < DaysRequired(p[2])}

Unfailing(sw) == sw.failed = {} /\ sw.raised = {} /\ sw.stats.errors = 0

\* this step belongs to a sweep that was started when the daily sweep had
\* just completed, and the platform has failed in neither
SecondSweepStep ==
    /\ sweep["daily_check_job"].pc = "done"
    /\ Unfailing(sweep["daily_check_job"])
    /\ sweep'["daily_check_job"] = sweep["daily_check_job"]
    /\ sweep'["run_check_now"].pc # "idle"
    /\ Unfailing(sweep'["run_check_now"])

C39_SweepFixedPoint ==
    [][SecondSweepStep =>
          /\ user_channels' = user_channels
          /\ invites' = invites
          /\ users' = users
          /\ \A u \in Users, c \in ChannelIds :
                Call("create_chat_invite_link", u, c) \notin effects'
          /\ sweep'["run_check_now"].stats.new_access_granted = 0
          /\ sweep'["run_check_now"].stats.deactivated = 0
          /\ sweep'["run_check_now"].stats.unqualified_revoked = 0
      ]_vars

\* the second sweep has completed after a first one that granted, revoked
\* or deactivated, and it checked a user
C39_Witness ==
    /\ sweep["daily_check_job"].pc = "done"
    /\ Unfailing(sweep["daily_check_job"])
    /\ sweep["daily_check_job"].stats.new_access_granted
         + sweep["daily_check_job"].stats.deactivated
         + sweep["daily_check_job"].stats.unqualified_revoked > 0
    /\ sweep["run_check_now"].pc = "done"
    /\ Unfailing(sweep["run_check_now"])
    /\ sweep["run_check_now"].stats.checked > 0

(***************************************************************************)
(* C40: no administrative operation takes effect when the initiating user  *)
(* id is not in ADMIN_IDS: in every reachable state, whatever operation a  *)
(* non-admin requests, the store is unchanged and no platform call is made *)
(* on behalf of the operation.                                             *)
(***************************************************************************)
Store == << users, channels, user_channels, invites, sweep, fsm >>

C40_OnlyAdminsAct ==
    \A from_user \in Initiators \ ADMIN_IDS :
        ~ ENABLED (/\ AdminRequest(from_user)
                   /\ (Store' # Store \/ effects' # {}))

\* a non-admin has just requested an operation while both users hold a Grant
\* and one of them is banned: there was something to revoke, unban and post
C40_Witness ==
    /\ glog # << >> /\ LastCall.op = "refused" /\ LastCall.user \notin ADMIN_IDS
    /\ effects = {}
    /\ \A u \in Users : \E r \in user_channels : r.user_id = u
    /\ \E u \in Users : users[u].is_banned

====
